---------------------------- MODULE Spec2Model ----------------------------
(***************************************************************************)
(* Model of the shot planner of src/bot/aiming/aiming_system.py            *)
(* (AimingSystem.calculate_best_shot and the helpers it calls) and of the  *)
(* game loop of src/bot/control/game_controller.py                         *)
(* (GameController.play_game_loop).  Spec, EdgeSpec and RepeatSpec run the *)
(* planner; LoopSpec runs games of a few rounds with timing jitter,        *)
(* LongLoopSpec games long enough for the limits of consecutive_no_shots,  *)
(* and LongLoopFairSpec adds that every step of the loop is taken.         *)
(*                                                                         *)
(* Numbers.  The program computes in binary64.  The model computes in      *)
(* fixed point: positions and velocities are integers in units of 1/SCALE  *)
(* pixel (pixel per second), angles are integers in microradians, and a    *)
(* score is an exact fraction [num, den].  sin and cos of the sweep angles *)
(* come from tables, atan2 from a CORDIC iteration.  The snapshots of the  *)
(* model are chosen so that the fixed-point trajectories are, point for    *)
(* point, the ones the program computes (no coordinate falls within the    *)
(* rounding error of an integer or of a wall); TallSnapshots is the one    *)
(* exception and says so.                                                  *)
(*                                                                         *)
(* References.  A Python reference to a Bubble of the snapshot is an index *)
(* into game_state.bubbles; None is the empty tuple.                       *)
(***************************************************************************)
EXTENDS Integers, Sequences, FiniteSets, TLC

VARIABLES
    game_state,      \* the snapshot passed to calculate_best_shot
    pc,              \* position in calculate_best_shot
    sorted_bubbles,  \* references to the bubbles, in visiting order
    bi,              \* position of the for loop over sorted_bubbles
    best_shot,       \* None or <<angle, target>>
    best_score,      \* [num, den]
    angle_deg,       \* loop variable of _calculate_bounced_shots
    bounced_shots,   \* list of <<angle, len(trajectory)>>
    ei,              \* position of the for loop over bounced_shots
    x, y, vx, vy,    \* locals of _simulate_trajectory (fixed point)
    trajectory,      \* list of integer points <<x, y>>
    bounces,         \* bounce counter of _simulate_trajectory
    scored,          \* history: every candidate _evaluate_shot was called for
    wall_hits,       \* history: bounces registered by all simulations of the call
    arg,             \* history: the snapshot as it was when the call was made
    calls,           \* history: the calls that returned, [snapshot, result]
    loop_pc,         \* position in GameController.play_game_loop
    max_rounds,      \* parameter of play_game_loop
    max_delay,       \* the longest an await of this run takes beyond its sleep
    round_count,
    consecutive_no_shots,
    loop_best_shot,  \* best_shot of play_game_loop: None or <<angle, target>>
    last_shot_time,  \* GameController.last_shot_time
    now,             \* time.time()
    click_time,      \* history: None or <<the time of the latest click of aim_and_shoot>>
    round_log        \* history: what the current round has done so far

plannerVars == <<game_state, pc, sorted_bubbles, bi, best_shot, best_score, angle_deg,
                 bounced_shots, ei, x, y, vx, vy, trajectory, bounces, scored, wall_hits>>
callVars == <<arg, calls>>
loopVars == <<loop_pc, max_rounds, max_delay, round_count, consecutive_no_shots, loop_best_shot,
              last_shot_time, now, click_time, round_log>>
vars == <<plannerVars, callVars, loopVars>>

None == <<>>

-----------------------------------------------------------------------------
(* Program constants *)

\* self.gravity = 9.81, in 1/100
gravity == 981
bullet_speed == 500
\* self.bounce_damping = 0.8, in 1/10
bounce_damping == 8
max_bounces == 3
\* dt = 0.016, in 1/1000
dt == 16
\* if len(trajectory) > 1000: break
MaxTrajectory == 1000
\* range(-80, 81, 5)
SweepFirst == -80
SweepLast == 80
SweepStep == 5

-----------------------------------------------------------------------------
(* Fixed-point arithmetic *)

SCALE == 10 ^ 5
\* math.pi and math.pi / 2 in microradians
PiMicro == 3141593
HalfPiMicro == 1570796

Abs(n) == IF n < 0 THEN -n ELSE n
Max(a, b) == IF a >= b THEN a ELSE b
Min(a, b) == IF a <= b THEN a ELSE b
\* n / d rounded to the nearest integer (d > 0)
Round(n, d) == (n + d \div 2) \div d
\* int(v) of a fixed-point value: truncation towards zero
Trunc(v) == IF v >= 0 THEN v \div SCALE ELSE -((-v) \div SCALE)

\* 10^6 * sin and cos of 0, 5, ..., 80 degrees
SinTable == <<0, 87156, 173648, 258819, 342020, 422618, 500000, 573576, 642788,
              707107, 766044, 819152, 866025, 906308, 939693, 965926, 984808>>
CosTable == <<1000000, 996195, 984808, 965926, 939693, 906308, 866025, 819152,
              766044, 707107, 642788, 573576, 500000, 422618, 342020, 258819, 173648>>
Sin(deg) == IF deg >= 0 THEN SinTable[deg \div SweepStep + 1]
            ELSE -SinTable[(-deg) \div SweepStep + 1]
Cos(deg) == CosTable[Abs(deg) \div SweepStep + 1]

\* the conversion left out: the number of degrees taken for radians
RadiansMissing(deg) == deg * 1000000

\* math.radians(deg) in microradians (pi/180 = 17453293e-9)
Radians(deg) == IF deg >= 0 THEN Round(deg * 17453293, 1000)
                ELSE -Round((-deg) * 17453293, 1000)

\* 10^9 * atan(2^-i), i = 0..27
AtanTable == <<785398163, 463647609, 244978663, 124354995, 62418810, 31239833,
               15623729, 7812341, 3906230, 1953123, 976562, 488281, 244141, 122070,
               61035, 30518, 15259, 7629, 3815, 1907, 954, 477, 238, 119, 60, 30,
               15, 7>>

\* CORDIC in vectoring mode: the angle of (cx, cy), cx > 0, in 1e-9 rad
RECURSIVE Cordic(_, _, _, _)
Cordic(cx, cy, z, i) ==
    IF i >= Len(AtanTable) \/ cy = 0 THEN z
    ELSE IF cy > 0
         THEN Cordic(cx + cy \div (2 ^ i), cy - cx \div (2 ^ i), z + AtanTable[i + 1], i + 1)
         ELSE Cordic(cx - cy \div (2 ^ i), cy + cx \div (2 ^ i), z - AtanTable[i + 1], i + 1)

\* math.atan2(a, b) in microradians
Atan2(a, b) ==
    IF a = 0 THEN (IF b >= 0 THEN 0 ELSE PiMicro)
    ELSE LET f == (2 ^ 27) \div Max(Abs(a), Abs(b))
             first == IF b = 0 THEN HalfPiMicro
                      ELSE Round(Cordic(Abs(b) * f, Abs(a) * f, 0, 0), 1000)
             quad == IF b < 0 THEN PiMicro - first ELSE first
         IN  IF a > 0 THEN quad ELSE -quad

-----------------------------------------------------------------------------
(* Scores: exact fractions with a positive denominator *)

Frac(n, d) == [num |-> n, den |-> d]
Greater(a, b) == a.num * b.den > b.num * a.den

-----------------------------------------------------------------------------
(* Bubble and GameState (src/bot/detection/game_detector.py) *)

Bubble(bx, by, r, h) == [x |-> bx, y |-> by, radius |-> r, hit_count |-> h, color |-> 0]
GameState(bs, sp, area) == [bubbles |-> bs, shooter_position |-> sp, game_area |-> area]

XMin(area) == area[1]
YMin(area) == area[2]
XMax(area) == area[1] + area[3]
YMax(area) == area[2] + area[4]

-----------------------------------------------------------------------------
(* Target order: sorted(bubbles, key=lambda b: (b.hit_count, -b.y)) *)

\* key(a) < key(b) for the tuples (hit_count, -y)
KeyLess(a, b) ==
    \/ a.hit_count < b.hit_count
    \/ (a.hit_count = b.hit_count /\ -a.y < -b.y)

\* the references 1..Len(bubbles) in the order of Python's stable sort
RECURSIVE SortedPrefix(_, _)
SortedPrefix(bubbles, n) ==
    IF n = 0 THEN <<>>
    ELSE LET prev == SortedPrefix(bubbles, n - 1)
             \* n goes after every earlier element whose key is not greater
             after == {k \in 1..Len(prev) : ~KeyLess(bubbles[n], bubbles[prev[k]])}
             pos == IF after = {} THEN 0 ELSE CHOOSE k \in after : \A m \in after : m <= k
         IN  SubSeq(prev, 1, pos) \o <<n>> \o SubSeq(prev, pos + 1, Len(prev))

SortedBubbles(bubbles) == SortedPrefix(bubbles, Len(bubbles))

-----------------------------------------------------------------------------
(* _calculate_direct_shot *)

\* dy > 0 for dy >= 0: a target level with the shooter gets an angle
CalculateDirectShotLevel(shooter_pos, target) ==
    LET dx == target.x - shooter_pos[1]
        dy == target.y - shooter_pos[2]
        angle == Atan2(dx, -dy)
    IN  IF dy > 0 THEN None
        ELSE IF Abs(angle) > HalfPiMicro THEN None
        ELSE <<angle>>

CalculateDirectShot(shooter_pos, target) ==
    LET dx == target.x - shooter_pos[1]
        dy == target.y - shooter_pos[2]
        angle == Atan2(dx, -dy)
    IN  IF dy >= 0 THEN None
        ELSE IF Abs(angle) > HalfPiMicro THEN None
        ELSE <<angle>>

-----------------------------------------------------------------------------
(* _evaluate_shot and _calculate_chain_potential *)

DistSq(ax, ay, bx, by) == (ax - bx) * (ax - bx) + (ay - by) * (ay - by)

\* sqrt(d2) < s * 1.5
Near(d2, s) == s > 0 /\ 4 * d2 < 9 * s * s

CalculateChainPotential(target, all_bubbles) ==
    Cardinality({k \in 1..Len(all_bubbles) :
        /\ all_bubbles[k] # target
        /\ Near(DistSq(all_bubbles[k].x, all_bubbles[k].y, target.x, target.y),
                target.radius + all_bubbles[k].radius)})

MaxY(all_bubbles, target) ==
    IF all_bubbles = <<>> THEN target.y
    ELSE CHOOSE m \in {all_bubbles[k].y : k \in 1..Len(all_bubbles)} :
             \A k \in 1..Len(all_bubbles) : all_bubbles[k].y <= m

\* target.y / max_y for (max_y - target.y) / max_y
HeightFactorInverted(target, all_bubbles) ==
    LET max_y == MaxY(all_bubbles, target)
    IN  IF max_y > 0 THEN Frac(target.y, max_y) ELSE Frac(0, 1)

\* lines 165-166: height_factor
HeightFactor(target, all_bubbles) ==
    LET max_y == MaxY(all_bubbles, target)
    IN  IF max_y > 0 THEN Frac(max_y - target.y, max_y) ELSE Frac(0, 1)

\* the bonus of line 175 given to the bounced shots
EvaluateShotBonusForBounced(target, all_bubbles, direct) ==
    LET whole == (10 - target.hit_count) * 10
                 + (IF direct THEN 0 ELSE 15)
                 + CalculateChainPotential(target, all_bubbles) * 5
        height_factor == HeightFactor(target, all_bubbles)
    IN  Frac(whole * height_factor.den + height_factor.num * 20, height_factor.den)

\* lines 163-181: the score of a shot
EvaluateShot(target, all_bubbles, direct) ==
    LET whole == (10 - target.hit_count) * 10
                 + (IF direct THEN 15 ELSE 0)
                 + CalculateChainPotential(target, all_bubbles) * 5
        height_factor == HeightFactor(target, all_bubbles)
    IN  Frac(whole * height_factor.den + height_factor.num * 20, height_factor.den)

-----------------------------------------------------------------------------
(* _trajectory_hits_target *)

\* the diameter for the radius
TrajectoryHitsDiameter(traj, target) ==
    \E k \in 1..Len(traj) :
        /\ target.radius >= 0
        /\ DistSq(traj[k][1], traj[k][2], target.x, target.y)
               <= 4 * target.radius * target.radius

TrajectoryHitsTarget(traj, target) ==
    \E k \in 1..Len(traj) :
        /\ target.radius >= 0
        /\ DistSq(traj[k][1], traj[k][2], target.x, target.y)
               <= target.radius * target.radius

-----------------------------------------------------------------------------
(* calculate_best_shot, one action per loop iteration *)

Target == game_state.bubbles[sorted_bubbles[bi]]

simVars == <<x, y, vx, vy, trajectory, bounces>>

\* an empty snapshot answered with a default shot straight up
BeginDefaultShot ==
    /\ pc = "call"
    /\ IF game_state.bubbles = <<>>
       THEN /\ best_shot' = <<0, 0>>
            /\ pc' = "done"
            /\ UNCHANGED <<best_score, sorted_bubbles, bi>>
       ELSE /\ best_shot' = None
            /\ best_score' = Frac(-1, 1)
            /\ sorted_bubbles' = SortedBubbles(game_state.bubbles)
            /\ bi' = 1
            /\ pc' = "direct"
    /\ UNCHANGED <<game_state, angle_deg, bounced_shots, ei, simVars, scored, wall_hits>>
    /\ UNCHANGED <<callVars, loopVars>>

\* bubbles.sort(key=...) for sorted(bubbles, key=...): the snapshot's list is reordered
BeginSortsInPlace ==
    /\ pc = "call"
    /\ IF game_state.bubbles = <<>>
       THEN /\ best_shot' = None
            /\ pc' = "done"
            /\ UNCHANGED <<game_state, best_score, sorted_bubbles, bi>>
       ELSE /\ best_shot' = None
            /\ best_score' = Frac(-1, 1)
            /\ game_state' = [game_state EXCEPT !.bubbles =
                   [k \in 1..Len(game_state.bubbles) |->
                       game_state.bubbles[SortedBubbles(game_state.bubbles)[k]]]]
            /\ sorted_bubbles' = [k \in 1..Len(game_state.bubbles) |-> k]
            /\ bi' = 1
            /\ pc' = "direct"
    /\ UNCHANGED <<angle_deg, bounced_shots, ei, simVars, scored, wall_hits>>
    /\ UNCHANGED <<callVars, loopVars>>

\* lines 26-36: the guard on an empty snapshot, the initial best and the sort
Begin ==
    /\ pc = "call"
    /\ IF game_state.bubbles = <<>>
       THEN /\ best_shot' = None
            /\ pc' = "done"
            /\ UNCHANGED <<best_score, sorted_bubbles, bi>>
       ELSE /\ best_shot' = None
            /\ best_score' = Frac(-1, 1)
            /\ sorted_bubbles' = SortedBubbles(game_state.bubbles)
            /\ bi' = 1
            /\ pc' = "direct"
    /\ UNCHANGED <<game_state, angle_deg, bounced_shots, ei, simVars, scored, wall_hits>>
    /\ UNCHANGED <<callVars, loopVars>>

\* no comparison: every candidate replaces the best
BetterAlways(score, best) == TRUE
\* score >= best_score: a later candidate of equal score replaces the best
BetterOrEqual(score, best) == ~Greater(best, score)
\* the comparison reversed
BetterReversed(score, best) == Greater(best, score)

\* score > best_score
Better(score, best) == Greater(score, best)

\* lines 40-45: the direct shot of the current bubble; then line 48 enters
\* _calculate_bounced_shots (lines 81-88)
TryDirect ==
    /\ pc = "direct"
    /\ LET angle == CalculateDirectShot(game_state.shooter_position, Target)
           score == EvaluateShot(Target, game_state.bubbles, TRUE)
       IN  IF angle # None
           THEN /\ scored' = Append(scored, [angle |-> angle[1], target |-> sorted_bubbles[bi],
                                             score |-> score, direct |-> TRUE])
                /\ IF Better(score, best_score)
                   THEN /\ best_score' = score
                        /\ best_shot' = <<angle[1], sorted_bubbles[bi]>>
                   ELSE UNCHANGED <<best_score, best_shot>>
           ELSE UNCHANGED <<scored, best_score, best_shot>>
    /\ bounced_shots' = <<>>
    /\ angle_deg' = SweepFirst
    /\ pc' = "sweep"
    /\ UNCHANGED <<game_state, sorted_bubbles, bi, ei, simVars, wall_hits>>
    /\ UNCHANGED <<callVars, loopVars>>

\* lines 88-91 and 102-113: the next sweep angle starts a simulation
StartSimulation ==
    /\ pc = "sweep"
    /\ angle_deg <= SweepLast
    /\ x' = game_state.shooter_position[1] * SCALE
    /\ y' = game_state.shooter_position[2] * SCALE
    /\ vx' = (bullet_speed * Sin(angle_deg)) \div ((10 ^ 6) \div SCALE)
    /\ vy' = -((bullet_speed * Cos(angle_deg)) \div ((10 ^ 6) \div SCALE))
    /\ trajectory' = <<<<Trunc(x'), Trunc(y')>>>>
    /\ bounces' = 0
    /\ pc' = "simulate"
    /\ UNCHANGED <<game_state, sorted_bubbles, bi, best_shot, best_score, angle_deg,
                   bounced_shots, ei, scored, wall_hits>>
    /\ UNCHANGED <<callVars, loopVars>>

\* the while condition without the bounce limit
LoopConditionAnyBounces == y > YMin(game_state.game_area) * SCALE

\* the while condition of line 115
LoopCondition ==
    /\ bounces <= max_bounces
    /\ y > YMin(game_state.game_area) * SCALE

\* line 134: the position is within the target's radius in both axes
CloseToTarget(px, py, target) ==
    /\ Abs(px - target.x * SCALE) < target.radius * SCALE
    /\ Abs(py - target.y * SCALE) < target.radius * SCALE

\* lines 115-139: one iteration of the while loop of _simulate_trajectory
SimulateStep ==
    /\ pc = "simulate"
    /\ LoopCondition
    /\ LET area == game_state.game_area
           x1 == x + Round(vx * dt, 1000)
           y1 == y + Round(vy * dt, 1000)
           wall == x1 <= XMin(area) * SCALE \/ x1 >= XMax(area) * SCALE
           x2 == IF wall THEN Max(XMin(area) * SCALE, Min(XMax(area) * SCALE, x1)) ELSE x1
           traj == Append(trajectory, <<Trunc(x2), Trunc(y1)>>)
       IN  /\ x' = x2
           /\ y' = y1
           /\ vy' = vy + (gravity * dt * SCALE) \div (10 ^ 5)
           /\ vx' = IF wall THEN Round(-vx * bounce_damping, 10) ELSE vx
           /\ bounces' = IF wall THEN bounces + 1 ELSE bounces
           /\ wall_hits' = IF wall THEN wall_hits + 1 ELSE wall_hits
           /\ IF y1 >= YMax(area) * SCALE
              THEN /\ trajectory' = trajectory
                   /\ pc' = "return"
              ELSE /\ trajectory' = traj
                   /\ pc' = IF CloseToTarget(x2, y1, Target) \/ Len(traj) > MaxTrajectory
                            THEN "return" ELSE "simulate"
    /\ UNCHANGED <<game_state, sorted_bubbles, bi, best_shot, best_score, angle_deg,
                   bounced_shots, ei, scored>>
    /\ UNCHANGED <<callVars, loopVars>>

\* the trajectory returned whatever its length
SimulationResultAnyLength == trajectory

\* line 141: what _simulate_trajectory returns
SimulationResult == IF Len(trajectory) > 1 THEN trajectory ELSE None

\* lines 141 and 94-95: the simulation returns, the angle is collected if its
\* trajectory hits the target, and the sweep moves on (line 97 after the last angle)
FinishSimulation ==
    /\ pc = "return" \/ (pc = "simulate" /\ ~LoopCondition)
    /\ bounced_shots' =
           IF SimulationResult # None /\ TrajectoryHitsTarget(SimulationResult, Target)
           THEN Append(bounced_shots, <<Radians(angle_deg), Len(SimulationResult)>>)
           ELSE bounced_shots
    /\ angle_deg' = angle_deg + SweepStep
    /\ IF angle_deg + SweepStep > SweepLast
       THEN pc' = "bounced" /\ ei' = 1
       ELSE pc' = "sweep" /\ ei' = ei
    /\ UNCHANGED <<game_state, sorted_bubbles, bi, best_shot, best_score, simVars,
                   scored, wall_hits>>
    /\ UNCHANGED <<callVars, loopVars>>

\* lines 49-53: one bounced shot of the current bubble
TryBounced ==
    /\ pc = "bounced"
    /\ ei <= Len(bounced_shots)
    /\ LET angle == bounced_shots[ei][1]
           score == EvaluateShot(Target, game_state.bubbles, FALSE)
       IN  /\ scored' = Append(scored, [angle |-> angle, target |-> sorted_bubbles[bi],
                                        score |-> score, direct |-> FALSE])
           /\ IF Better(score, best_score)
              THEN /\ best_score' = score
                   /\ best_shot' = <<angle, sorted_bubbles[bi]>>
              ELSE UNCHANGED <<best_score, best_shot>>
    /\ ei' = ei + 1
    /\ UNCHANGED <<game_state, pc, sorted_bubbles, bi, angle_deg, bounced_shots,
                   simVars, wall_hits>>
    /\ UNCHANGED <<callVars, loopVars>>

\* lines 38 and 55: the next bubble, or the return of best_shot
NextBubble ==
    /\ pc = "bounced"
    /\ ei > Len(bounced_shots)
    /\ IF bi < Len(sorted_bubbles)
       THEN pc' = "direct" /\ bi' = bi + 1
       ELSE pc' = "done" /\ bi' = bi
    /\ UNCHANGED <<game_state, sorted_bubbles, best_shot, best_score, angle_deg,
                   bounced_shots, ei, simVars, scored, wall_hits>>
    /\ UNCHANGED <<callVars, loopVars>>

-----------------------------------------------------------------------------
(* The snapshots calculate_best_shot is called on *)

MaxBubbles == 3

\* the sequences over pool of length 0..n
RECURSIVE SeqsUpTo(_, _)
SeqsUpTo(pool, n) ==
    IF n = 0 THEN {<<>>}
    ELSE LET shorter == SeqsUpTo(pool, n - 1)
         IN  shorter \cup {Append(s, b) : s \in shorter, b \in pool}

\* a narrow play area, every wall within reach of the shooter
NarrowPool == {Bubble(8, 8, 6, 1), Bubble(24, 8, 6, 1), Bubble(40, 24, 6, 1),
               Bubble(24, 8, 6, 2), Bubble(24, 8, 6, 12), Bubble(24, 44, 6, 1)}
NarrowSnapshots ==
    {GameState(bs, <<24, 40>>, <<0, 0, 48, 48>>) : bs \in SeqsUpTo(NarrowPool, MaxBubbles)}

\* a wide play area whose walls no trajectory reaches before the ceiling
WidePool == {Bubble(86, 40, 8, 1), Bubble(80, 44, 2, 1), Bubble(80, 34, 4, 1)}
WideSnapshots ==
    {GameState(bs, <<80, 40>>, <<0, 30, 160, 16>>) : bs \in SeqsUpTo(WidePool, MaxBubbles)}

\* the snapshot of test_aiming (src/test_bot.py)
TestSnapshot ==
    GameState(<<Bubble(200, 150, 25, 2), Bubble(300, 200, 20, 1), Bubble(400, 100, 30, 3)>>,
              <<400, 500>>, <<0, 0, 800, 600>>)

Snapshots == NarrowSnapshots \cup WideSnapshots \cup {TestSnapshot}

\* the snapshots of one bubble of pool
Singles(pool, sp, area) == {GameState(<<b>>, sp, area) : b \in pool}

\* the shooter on the left wall; the second bubble touches the shooter from below
WallSnapshots ==
    Singles({Bubble(24, 50, 6, 1), Bubble(8, 76, 6, 1), Bubble(40, 60, 6, 1)},
            <<8, 70>>, <<8, 36, 48, 44>>)

\* a ceiling no bullet reaches in 1000 steps.  Over simulations this long the
\* fixed-point positions drift from the binary64 ones: the trajectories of this
\* family have the lengths, the bounce counts and the hits of the program's,
\* and a few of their points lie one pixel off
TallSnapshots ==
    Singles({Bubble(101, 100, 6, 1), Bubble(60, 150, 6, 1)},
            <<101, 7000>>, <<0, 0, 200, 7100>>)

\* the shooter right of the play area
OutsideSnapshots ==
    Singles({Bubble(40, 24, 6, 1), Bubble(24, 30, 6, 1)}, <<60, 40>>, <<0, 20, 48, 28>>)

\* the shooter below the floor; the third bubble lies across the floor, within
\* reach of the first step of the flattest shot to the right
BelowFloorSnapshots ==
    Singles({Bubble(40, 24, 6, 1), Bubble(24, 8, 6, 1), Bubble(34, 48, 6, 1)},
            <<26, 50>>, <<0, 0, 48, 48>>)

\* play areas of zero or negative width or height
DegenerateAreas == {<<24, 0, 0, 48>>, <<24, 0, -8, 48>>, <<0, 40, 48, 0>>, <<0, 40, 48, -8>>}
DegenerateSnapshots ==
    UNION {Singles({Bubble(40, 24, 6, 1), Bubble(24, 8, 6, 1)}, <<24, 40>>, area) :
               area \in DegenerateAreas}

\* snapshots on and beyond the edge of what the detector produces
EdgeSnapshots ==
    WallSnapshots \cup TallSnapshots \cup OutsideSnapshots \cup BelowFloorSnapshots
        \cup DegenerateSnapshots \cup {TestSnapshot}

-----------------------------------------------------------------------------

\* the locals of a call of calculate_best_shot that has not started
FreshCall ==
    /\ pc = "call"
    /\ sorted_bubbles = <<>>
    /\ bi = 0
    /\ best_shot = None
    /\ best_score = Frac(0, 1)
    /\ angle_deg = 0
    /\ bounced_shots = <<>>
    /\ ei = 0
    /\ x = 0 /\ y = 0 /\ vx = 0 /\ vy = 0
    /\ trajectory = <<>>
    /\ bounces = 0
    /\ scored = <<>>
    /\ wall_hits = 0

\* no earlier call on record
FirstCall ==
    /\ arg = game_state
    /\ calls = <<>>

\* play_game_loop is not running
LoopIdle ==
    /\ loop_pc = "idle"
    /\ max_rounds = 0
    /\ max_delay = 0
    /\ round_count = 0
    /\ consecutive_no_shots = 0
    /\ loop_best_shot = None
    /\ last_shot_time = 0
    /\ now = 0
    /\ click_time = None
    /\ round_log = <<>>

Init ==
    /\ game_state \in Snapshots
    /\ FreshCall
    /\ FirstCall
    /\ LoopIdle

Next ==
    \/ Begin
    \/ TryDirect
    \/ StartSimulation
    \/ SimulateStep
    \/ FinishSimulation
    \/ TryBounced
    \/ NextBubble

Spec == Init /\ [][Next]_vars

\* calculate_best_shot called again and again on the same AimingSystem
MaxCalls == 3

RepeatSnapshots ==
    {GameState(<<>>, <<24, 40>>, <<0, 0, 48, 48>>),
     GameState(<<Bubble(24, 8, 6, 2), Bubble(40, 24, 6, 1)>>, <<24, 40>>, <<0, 0, 48, 48>>),
     GameState(<<Bubble(80, 34, 4, 1), Bubble(86, 40, 8, 1)>>, <<80, 40>>, <<0, 30, 160, 16>>)}

RepeatInit ==
    /\ game_state \in RepeatSnapshots
    /\ FreshCall
    /\ FirstCall
    /\ LoopIdle

\* the call has returned (line 55 or line 27) and the caller calls again, on any
\* snapshot; the locals of the new call hold nothing yet (the values of the
\* variables stay behind, every one is assigned before it is read)
CallAgain ==
    /\ pc = "done"
    /\ Len(calls) < MaxCalls - 1
    /\ calls' = Append(calls, [snapshot |-> arg, result |-> best_shot])
    /\ \E s \in RepeatSnapshots : game_state' = s /\ arg' = s
    /\ pc' = "call"
    /\ scored' = <<>>
    /\ wall_hits' = 0
    /\ UNCHANGED <<sorted_bubbles, bi, best_shot, best_score, angle_deg, bounced_shots,
                   ei, simVars>>
    /\ UNCHANGED loopVars

RepeatNext == Next \/ CallAgain

RepeatSpec == RepeatInit /\ [][RepeatNext]_vars

\* calculate_best_shot called on the edge snapshots
EdgeInit ==
    /\ game_state \in EdgeSnapshots
    /\ FreshCall
    /\ FirstCall
    /\ LoopIdle

EdgeSpec == EdgeInit /\ [][Next]_vars

-----------------------------------------------------------------------------
(* GameController.play_game_loop (src/bot/control/game_controller.py).       *)
(* Time is counted in tenths of a second.  An await takes the time its       *)
(* sleep asks for and then up to MaxDelay more; the detector and the planner *)
(* are seen through what they return.                                        *)

\* self.shot_cooldown = 2.0
shot_cooldown == 20
\* asyncio.sleep(1) after a failed detection
DetectionSleep == 10
\* asyncio.sleep(2) after a round without a shot
NoShotSleep == 20
\* asyncio.sleep(0.1) between the move and the click
AimingPause == 1
\* asyncio.sleep(3) after a shot
SettleSleep == 30
\* asyncio.sleep(2) in the exception handler
ErrorSleep == 20
\* if consecutive_no_shots > 10
DetectionFailureLimit == 10
\* if consecutive_no_shots > 5
NoShotLimit == 5

MaxRounds == 4
MaxDelay == 1
Delays == 0..max_delay

\* time.time() when play_game_loop is entered; last_shot_time is still 0
StartTimes == {0, 15, 1000}

loopLocals == <<max_rounds, max_delay, round_count, consecutive_no_shots, loop_best_shot>>
clickVars == <<last_shot_time, click_time>>

\* lines 106-109: the while test and the round counter
WhileTest ==
    /\ loop_pc = "while"
    /\ IF round_count < max_rounds
       THEN /\ round_count' = round_count + 1
            /\ round_log' = <<>>
            /\ loop_pc' = "screenshot"
       ELSE /\ loop_pc' = "stopped"
            /\ UNCHANGED <<round_count, round_log>>
    /\ UNCHANGED <<max_rounds, max_delay, consecutive_no_shots, loop_best_shot, now, clickVars>>
    /\ UNCHANGED <<plannerVars, callVars>>

\* line 112: take_screenshot raises
ScreenshotFails ==
    /\ loop_pc = "screenshot"
    /\ \E d \in Delays : now' = now + d
    /\ loop_pc' = "except"
    /\ UNCHANGED <<loopLocals, clickVars, round_log>>
    /\ UNCHANGED <<plannerVars, callVars>>

\* lines 112-122: the detector returns None
DetectNothing ==
    /\ loop_pc = "screenshot"
    /\ \E d \in Delays : now' = now + DetectionSleep + d
    /\ round_log' = round_log \o <<"screenshot", "sleep">>
    /\ consecutive_no_shots' = consecutive_no_shots + 1
    /\ loop_pc' = IF consecutive_no_shots' > DetectionFailureLimit THEN "stopped" ELSE "while"
    /\ UNCHANGED <<max_rounds, max_delay, round_count, loop_best_shot, clickVars>>
    /\ UNCHANGED <<plannerVars, callVars>>

\* lines 112-113 and 134-136: the detector returns a snapshot without bubbles
DetectGameOver ==
    /\ loop_pc = "screenshot"
    /\ \E d \in Delays : now' = now + d
    /\ round_log' = Append(round_log, "screenshot")
    /\ loop_pc' = "stopped"
    /\ UNCHANGED <<loopLocals, clickVars>>
    /\ UNCHANGED <<plannerVars, callVars>>

\* lines 112-113 and 124-134: the detector returns a snapshot with bubbles
DetectBubbles ==
    /\ loop_pc = "screenshot"
    /\ \E d \in Delays : now' = now + d
    /\ round_log' = Append(round_log, "screenshot")
    /\ loop_pc' = "plan"
    /\ UNCHANGED <<loopLocals, clickVars>>
    /\ UNCHANGED <<plannerVars, callVars>>

\* a round without a shot that aims and clicks all the same
PlanNoneShoots ==
    /\ loop_pc = "plan"
    /\ loop_best_shot' = None
    /\ round_log' = Append(round_log, "none")
    /\ loop_pc' = "cooldown"
    /\ UNCHANGED <<max_rounds, max_delay, round_count, consecutive_no_shots, now, clickVars>>
    /\ UNCHANGED <<plannerVars, callVars>>

\* a round without a shot that is not counted
PlanNoneUncounted ==
    /\ loop_pc = "plan"
    /\ loop_best_shot' = None
    /\ \E d \in Delays : now' = now + NoShotSleep + d
    /\ round_log' = round_log \o <<"none", "sleep">>
    /\ loop_pc' = IF consecutive_no_shots > NoShotLimit THEN "stopped" ELSE "while"
    /\ UNCHANGED <<max_rounds, max_delay, round_count, consecutive_no_shots, clickVars>>
    /\ UNCHANGED <<plannerVars, callVars>>

\* lines 139-148: calculate_best_shot returns None
PlanNone ==
    /\ loop_pc = "plan"
    /\ loop_best_shot' = None
    /\ \E d \in Delays : now' = now + NoShotSleep + d
    /\ round_log' = round_log \o <<"none", "sleep">>
    /\ consecutive_no_shots' = consecutive_no_shots + 1
    /\ loop_pc' = IF consecutive_no_shots' > NoShotLimit THEN "stopped" ELSE "while"
    /\ UNCHANGED <<max_rounds, max_delay, round_count, clickVars>>
    /\ UNCHANGED <<plannerVars, callVars>>

\* lines 139 and 150-159: calculate_best_shot returns a shot
PlanShot ==
    /\ loop_pc = "plan"
    /\ loop_best_shot' = <<"angle", "target_bubble">>
    /\ consecutive_no_shots' = 0
    /\ round_log' = Append(round_log, "shot")
    /\ loop_pc' = "cooldown"
    /\ UNCHANGED <<max_rounds, max_delay, round_count, now, clickVars>>
    /\ UNCHANGED <<plannerVars, callVars>>

\* wait_for_shot_cooldown that never sleeps
WaitForShotCooldownSkipped ==
    /\ loop_pc = "cooldown"
    /\ \E d \in Delays : now' = now + d
    /\ loop_pc' = "aim"
    /\ UNCHANGED <<loopLocals, clickVars, round_log>>
    /\ UNCHANGED <<plannerVars, callVars>>

\* lines 91-97 and 162: wait_for_shot_cooldown
WaitForShotCooldown ==
    /\ loop_pc = "cooldown"
    /\ LET time_since_shot == now - last_shot_time
       IN  IF time_since_shot < shot_cooldown
           THEN /\ \E d \in Delays : now' = now + (shot_cooldown - time_since_shot) + d
                /\ round_log' = Append(round_log, "sleep")
           ELSE /\ now' = now
                /\ round_log' = round_log
    /\ loop_pc' = "aim"
    /\ UNCHANGED <<loopLocals, clickVars>>
    /\ UNCHANGED <<plannerVars, callVars>>

\* lines 76-83: aim_and_shoot moves the mouse and pauses
Aim ==
    /\ loop_pc = "aim"
    /\ \E d \in Delays : now' = now + AimingPause + d
    /\ round_log' = Append(round_log, "move")
    /\ loop_pc' = "click"
    /\ UNCHANGED <<loopLocals, clickVars>>
    /\ UNCHANGED <<plannerVars, callVars>>

\* lines 86-89: aim_and_shoot clicks and records the time of the shot
Click ==
    /\ loop_pc = "click"
    /\ \E d \in Delays : now' = now + d
    /\ click_time' = <<now'>>
    /\ last_shot_time' = now'
    /\ round_log' = Append(round_log, "click")
    /\ loop_pc' = "settle"
    /\ UNCHANGED loopLocals
    /\ UNCHANGED <<plannerVars, callVars>>

\* lines 82 and 86: the mouse move or the click raises
MouseFails ==
    /\ loop_pc \in {"aim", "click"}
    /\ \E d \in Delays : now' = now + d
    /\ loop_pc' = "except"
    /\ UNCHANGED <<loopLocals, clickVars, round_log>>
    /\ UNCHANGED <<plannerVars, callVars>>

\* lines 168-171: the wait for the bullet, and _handle_popups
Settle ==
    /\ loop_pc = "settle"
    /\ \E d \in Delays : now' = now + SettleSleep + d
    /\ round_log' = Append(round_log, "sleep")
    /\ loop_pc' = "while"
    /\ UNCHANGED <<loopLocals, clickVars>>
    /\ UNCHANGED <<plannerVars, callVars>>

\* a handler that takes the round back: round_count += 1 counted only for the
\* rounds that raise nothing
HandleErrorUncounted ==
    /\ loop_pc = "except"
    /\ \E d \in Delays : now' = now + ErrorSleep + d
    /\ round_count' = round_count - 1
    /\ round_log' = Append(round_log, "sleep")
    /\ loop_pc' = "while"
    /\ UNCHANGED <<max_rounds, max_delay, consecutive_no_shots, loop_best_shot, clickVars>>
    /\ UNCHANGED <<plannerVars, callVars>>

\* lines 173-175: the exception handler of the round
HandleError ==
    /\ loop_pc = "except"
    /\ \E d \in Delays : now' = now + ErrorSleep + d
    /\ round_log' = Append(round_log, "sleep")
    /\ loop_pc' = "while"
    /\ UNCHANGED <<loopLocals, clickVars>>
    /\ UNCHANGED <<plannerVars, callVars>>

\* lines 99-104: play_game_loop is entered on a new GameController
LoopInit ==
    /\ game_state = TestSnapshot
    /\ FreshCall
    /\ FirstCall
    /\ loop_pc = "while"
    /\ max_rounds \in 1..MaxRounds
    /\ max_delay = MaxDelay
    /\ round_count = 0
    /\ consecutive_no_shots = 0
    /\ loop_best_shot = None
    /\ last_shot_time = 0
    /\ now \in StartTimes
    /\ click_time = None
    /\ round_log = <<>>

LoopNext ==
    \/ WhileTest
    \/ ScreenshotFails
    \/ DetectNothing
    \/ DetectGameOver
    \/ DetectBubbles
    \/ PlanNone
    \/ PlanShot
    \/ WaitForShotCooldown
    \/ Aim
    \/ Click
    \/ MouseFails
    \/ Settle
    \/ HandleError

LoopSpec == LoopInit /\ [][LoopNext]_vars

\* games long enough for both limits of consecutive_no_shots: every await
\* takes exactly the time its sleep asks for
MaxLongRounds == 12

LongLoopInit ==
    /\ game_state = TestSnapshot
    /\ FreshCall
    /\ FirstCall
    /\ loop_pc = "while"
    /\ max_rounds \in {0, MaxLongRounds}
    /\ max_delay = 0
    /\ round_count = 0
    /\ consecutive_no_shots = 0
    /\ loop_best_shot = None
    /\ last_shot_time = 0
    /\ now = 0
    /\ click_time = None
    /\ round_log = <<>>

LongLoopSpec == LongLoopInit /\ [][LoopNext]_vars

\* every await of the loop returns or raises, and the statements between two
\* awaits run to the next one
LongLoopFairSpec == LongLoopSpec /\ WF_vars(LoopNext)

-----------------------------------------------------------------------------
(* Properties *)

Bubbles == game_state.bubbles
ShooterY == game_state.shooter_position[2]
\* the position of a bubble reference in the visiting order
Visit(ref) == CHOOSE k \in 1..Len(sorted_bubbles) : sorted_bubbles[k] = ref
\* the states between two candidates, where scored and best_shot are settled
Settled == pc \in {"bounced", "done"} \/ (pc = "sweep" /\ angle_deg = SweepFirst)
\* math.radians of the sweep angles -80, -75, ..., 80
SweepAngles ==
    {Radians(SweepFirst + SweepStep * k) : k \in 0..((SweepLast - SweepFirst) \div SweepStep)}

\* C1: calculate_best_shot returns None for every snapshot whose bubble
\* collection is empty, whatever the shooter position and the play area.
C1_EmptySnapshotReturnsNone ==
    (pc = "done" /\ Bubbles = <<>>) => best_shot = None

C1_Witness ==
    /\ pc = "done"
    /\ Bubbles = <<>>
    /\ game_state.game_area = <<0, 30, 160, 16>>
    /\ best_shot = None

\* C2: calculate_best_shot returns None only when no bubble yields a viable
\* shot: once it has returned, if _evaluate_shot was called for any viable
\* direct or bounced shot, or any bubble has a direct shot, the result is a shot.
C2_ViableShotIsReturned ==
    (/\ pc = "done"
     /\ \/ scored # <<>>
        \/ \E k \in 1..Len(Bubbles) :
               CalculateDirectShot(game_state.shooter_position, Bubbles[k]) # None)
    => best_shot # None

\* C3: the bubbles are visited in a total order: fewer remaining hits first,
\* among equal hit counts the smaller y first, and bubbles with equal
\* hit_count and y in their snapshot order.
C3_PrioritizedOrder ==
    pc = "direct" =>
        \A i, j \in 1..Len(sorted_bubbles) : i < j =>
            LET a == Bubbles[sorted_bubbles[i]]
                b == Bubbles[sorted_bubbles[j]]
            IN  \/ a.hit_count < b.hit_count
                \/ (a.hit_count = b.hit_count /\ a.y < b.y)
                \/ (a.hit_count = b.hit_count /\ a.y = b.y
                    /\ sorted_bubbles[i] < sorted_bubbles[j])

\* C4: when calculate_best_shot returns a shot, its score is the maximum over
\* all viable shots: the returned pair was scored with best_score, and no
\* viable direct or bounced shot of any bubble scores strictly higher.
C4_ReturnedScoreIsMaximal ==
    (pc = "done" /\ best_shot # None) =>
        /\ \E k \in 1..Len(scored) :
               /\ <<scored[k].angle, scored[k].target>> = best_shot
               /\ scored[k].score = best_score
        /\ \A k \in 1..Len(scored) : ~Greater(scored[k].score, best_score)
        /\ \A k \in 1..Len(Bubbles) :
               CalculateDirectShot(game_state.shooter_position, Bubbles[k]) # None
               => ~Greater(EvaluateShot(Bubbles[k], Bubbles, TRUE), best_score)

C4_Witness ==
    /\ pc = "done"
    /\ best_shot # None
    /\ \E k \in 1..Len(scored) : Greater(best_score, scored[k].score)
    /\ \E k \in 1..Len(scored) :
           /\ Greater(best_score, scored[k].score)
           /\ Visit(scored[k].target) > Visit(best_shot[2])

\* C5: among the viable shots of the highest score the first one found is the
\* best: candidates are found bubble by bubble in visiting order, the direct
\* shot of a bubble before its bounced shots, the bounced shots by rising
\* sweep angle; the best is strictly better than every candidate found
\* before it and no candidate found after it is better.
C5_FirstFoundWinsTies ==
    /\ (Settled /\ best_shot # None) =>
           \E k \in 1..Len(scored) :
               /\ <<scored[k].angle, scored[k].target>> = best_shot
               /\ scored[k].score = best_score
               /\ \A m \in 1..(k - 1) : Greater(scored[k].score, scored[m].score)
               /\ \A m \in (k + 1)..Len(scored) : ~Greater(scored[m].score, scored[k].score)
    /\ pc = "done" =>
           \A m, n \in 1..Len(scored) : m < n =>
               \/ Visit(scored[m].target) < Visit(scored[n].target)
               \/ /\ scored[m].target = scored[n].target
                  /\ \/ (scored[m].direct /\ ~scored[n].direct)
                     \/ (~scored[m].direct /\ ~scored[n].direct
                         /\ scored[m].angle < scored[n].angle)

C5_Witness ==
    /\ pc = "done"
    /\ best_shot # None
    /\ \E m, n \in 1..Len(scored) :
           /\ m < n
           /\ scored[m].target # scored[n].target
           /\ scored[m].score = best_score
           /\ scored[n].score = best_score
           /\ best_shot = <<scored[m].angle, scored[m].target>>

\* C6: every angle calculate_best_shot returns lies in [-pi/2, pi/2]: it is
\* the direct-shot angle of the returned target or one of the sweep angles.
C6_ReturnedAngleInRange ==
    (pc = "done" /\ best_shot # None) =>
        /\ -HalfPiMicro <= best_shot[1]
        /\ best_shot[1] <= HalfPiMicro
        /\ \/ CalculateDirectShot(game_state.shooter_position, Bubbles[best_shot[2]])
                  = <<best_shot[1]>>
           \/ best_shot[1] \in SweepAngles

C6_Witness ==
    /\ pc = "done"
    /\ best_shot # None
    /\ CalculateDirectShot(game_state.shooter_position, Bubbles[best_shot[2]]) = None
    /\ best_shot[1] = Radians(SweepFirst)

\* C7: the target of a returned shot is an element of the snapshot's bubble
\* collection; for the snapshot of test_aiming the result is a shot whose
\* target is one of its three bubbles.
C7_TargetIsASnapshotBubble ==
    /\ best_shot # None => best_shot[2] \in 1..Len(Bubbles)
    /\ (pc = "done" /\ game_state = TestSnapshot) =>
           /\ best_shot # None
           /\ Bubbles[best_shot[2]] \in
                  {Bubble(200, 150, 25, 2), Bubble(300, 200, 20, 1), Bubble(400, 100, 30, 3)}

C7_Witness ==
    /\ pc = "done"
    /\ game_state = TestSnapshot
    /\ best_shot # None
    /\ best_shot[2] \in 1..Len(Bubbles)

\* C8: _calculate_direct_shot yields an angle exactly when the target lies
\* strictly above the shooter; the angle is 0 exactly when target.x =
\* shooter.x, positive exactly when the target is to the right and negative
\* exactly when it is to the left.
C8_DirectShotAboveAndSigned ==
    pc = "direct" =>
        LET a == CalculateDirectShot(game_state.shooter_position, Target)
            sx == game_state.shooter_position[1]
        IN  /\ a # None <=> Target.y < ShooterY
            /\ a # None =>
                   /\ a[1] = 0 <=> Target.x = sx
                   /\ a[1] > 0 <=> Target.x > sx
                   /\ a[1] < 0 <=> Target.x < sx

\* TryDirect has found the direct shot of a target up and to the left
C8_Witness ==
    /\ pc = "sweep"
    /\ angle_deg = SweepFirst
    /\ scored # <<>>
    /\ LET last == scored[Len(scored)]
       IN  /\ last.direct
           /\ last.target = sorted_bubbles[bi]
           /\ last.angle < 0
           /\ Target.x < game_state.shooter_position[1]
           /\ Target.y < ShooterY

\* C9 as stated: where no simulated trajectory reaches a wall, a bubble at or
\* below the shooter's y has no viable shot, direct or bounced, and a snapshot
\* of such bubbles only yields None.
C9_NoShotAtOrBelowShooter ==
    (pc = "done" /\ wall_hits = 0) =>
        /\ \A k \in 1..Len(scored) : Bubbles[scored[k].target].y < ShooterY
        /\ (\A k \in 1..Len(Bubbles) : Bubbles[k].y >= ShooterY) => best_shot = None

\* C9 amended: where no simulated trajectory reaches a wall, a bubble that
\* lies wholly below the shooter (y - radius > shooter y) has no viable shot,
\* direct or bounced, and a snapshot of such bubbles only yields None.
C9_NoShotWhollyBelowShooter ==
    (pc = "done" /\ wall_hits = 0) =>
        /\ \A k \in 1..Len(scored) :
               ~(Bubbles[scored[k].target].y - Bubbles[scored[k].target].radius > ShooterY)
        /\ (\A k \in 1..Len(Bubbles) : Bubbles[k].y - Bubbles[k].radius > ShooterY)
               => best_shot = None

C9_Witness ==
    /\ pc = "done"
    /\ wall_hits = 0
    /\ Len(Bubbles) = MaxBubbles
    /\ \A k \in 1..Len(Bubbles) : Bubbles[k].y - Bubbles[k].radius > ShooterY
    /\ best_shot = None

\* C10: _evaluate_shot is strictly monotonic: a target scores strictly higher
\* with a smaller hit_count (position, radius and the rest of the bubble list
\* unchanged); the direct shot scores strictly higher than the bounced shot
\* of the same target; of two targets that differ in height_factor only, the
\* one with the larger height_factor scores strictly higher.
C10_ScoreStrictlyMonotonic ==
    pc = "direct" =>
        \A d \in BOOLEAN :
            /\ \A h \in 0..(Target.hit_count - 1) :
                   LET fewer == [Bubbles EXCEPT ![sorted_bubbles[bi]].hit_count = h]
                   IN  Greater(EvaluateShot(fewer[sorted_bubbles[bi]], fewer, d),
                               EvaluateShot(Target, Bubbles, d))
            /\ Greater(EvaluateShot(Target, Bubbles, TRUE), EvaluateShot(Target, Bubbles, FALSE))
            /\ \A k \in 1..Len(Bubbles) :
                   (/\ Bubbles[k].hit_count = Target.hit_count
                    /\ CalculateChainPotential(Bubbles[k], Bubbles)
                           = CalculateChainPotential(Target, Bubbles)
                    /\ MaxY(Bubbles, Target) > 0
                    /\ Bubbles[k].y < Target.y)
                   => Greater(EvaluateShot(Bubbles[k], Bubbles, d),
                              EvaluateShot(Target, Bubbles, d))

-----------------------------------------------------------------------------
(* _simulate_trajectory (claims C11 to C14) *)

\* the states in which _simulate_trajectory returns (line 141)
Returning == pc = "return" \/ (pc = "simulate" /\ ~LoopCondition)

\* the shooter lies in the play area, and the play area has a width and a height
ShooterInside(gs) ==
    /\ gs.game_area[3] > 0 /\ gs.game_area[4] > 0
    /\ XMin(gs.game_area) <= gs.shooter_position[1]
    /\ gs.shooter_position[1] <= XMax(gs.game_area)
    /\ YMin(gs.game_area) <= gs.shooter_position[2]
    /\ gs.shooter_position[2] <= YMax(gs.game_area)

\* C11: every point of a trajectory _simulate_trajectory returns, the origin
\* included, has x in [x_min, x_max] and y not below the floor y_max.
C11_TrajectoryWithinPlayArea ==
    (Returning /\ SimulationResult # None) =>
        \A k \in 1..Len(SimulationResult) :
            /\ XMin(game_state.game_area) <= SimulationResult[k][1]
            /\ SimulationResult[k][1] <= XMax(game_state.game_area)
            /\ SimulationResult[k][2] <= YMax(game_state.game_area)

\* the same for the snapshots whose shooter is inside the play area
C11_WithinPlayAreaFromInside == ShooterInside(game_state) => C11_TrajectoryWithinPlayArea

\* C12: _simulate_trajectory terminates: a trajectory never has more than
\* 1001 points and a simulation never registers more than max_bounces + 1 = 4
\* bounces; an iteration that stays in the loop has appended a point, and the
\* loop is left once the bounce counter has passed max_bounces.
C12_SimulationTerminates ==
    /\ [](Len(trajectory) <= MaxTrajectory + 1 /\ bounces <= max_bounces + 1)
    /\ [][(pc = "simulate" /\ pc' = "simulate") =>
              (/\ Len(trajectory') = Len(trajectory) + 1
               /\ Len(trajectory') <= MaxTrajectory
               /\ bounces <= max_bounces)]_vars

\* the step cap ends a simulation that has bounced off the walls three times
C12_Witness ==
    /\ pc = "return"
    /\ Len(trajectory) = MaxTrajectory + 1
    /\ bounces = max_bounces

\* angle 0 from a shooter standing on a wall: the fourth bounce ends the loop
C12_WallWitness ==
    /\ Returning
    /\ angle_deg = 0
    /\ game_state.shooter_position[1] = XMin(game_state.game_area)
    /\ ShooterInside(game_state)
    /\ vx = 0
    /\ bounces = max_bounces + 1

\* the break of line 128 was taken: the position has passed the floor
FloorCrossed == pc = "return" /\ y >= YMax(game_state.game_area) * SCALE

CapExceeded ==
    /\ Returning
    /\ bounces > max_bounces \/ Len(trajectory) > MaxTrajectory
    /\ ~CloseToTarget(x, y, Target)

\* lines 94-95: the angle of the simulation that returns is collected
Collected == SimulationResult # None /\ TrajectoryHitsTarget(SimulationResult, Target)

\* C14: when the bounce counter exceeds max_bounces (3) or the step count
\* exceeds the hard cap (1000) before the target is reached,
\* _simulate_trajectory returns None, so such an angle is never collected as
\* a viable bounced shot.
C14_CapReturnsNone == CapExceeded => (SimulationResult = None /\ ~Collected)

\* the second half alone: an angle whose simulation ran into a cap is not collected
C14_CappedAngleNotCollected == CapExceeded => ~Collected

-----------------------------------------------------------------------------
(* The early exit of _simulate_trajectory (claims C21 and C22) *)

\* an iteration of the while loop has moved the bullet to a position within the
\* target's radius in both axes (the condition of line 134)
StepIntoReach ==
    /\ pc = "simulate"
    /\ pc' \in {"simulate", "return"}
    /\ CloseToTarget(x', y', Target)

\* the simulation ends there and returns a trajectory whose last point is the
\* position reached (lines 131 and 141)
ReturnsPositionReached ==
    /\ pc' = "return"
    /\ SimulationResult' # None
    /\ SimulationResult'[Len(SimulationResult')] = <<Trunc(x'), Trunc(y')>>

\* a simulation that goes on has not been within the target's radius at any
\* step so far; one that has ended simulates no further step
StopsAtFirstStepInReach ==
    /\ []((pc = "simulate" /\ Len(trajectory) > 1) => ~CloseToTarget(x, y, Target))
    /\ [][pc = "return" => (UNCHANGED simVars /\ pc' # "simulate")]_vars

\* a returned trajectory starts at the origin and has at least 2 points
ReturnedFromOrigin ==
    (Returning /\ SimulationResult # None) =>
        /\ Len(SimulationResult) >= 2
        /\ SimulationResult[1] = game_state.shooter_position

\* C21: _simulate_trajectory stops at the first step whose position is within
\* the target's radius in both axes: that position is the last point of the
\* returned trajectory, no step is simulated after it, and every returned
\* trajectory starts at the origin and has at least 2 points.
C21_StopsAtFirstStepInReach ==
    /\ StopsAtFirstStepInReach
    /\ []ReturnedFromOrigin
    /\ [][StepIntoReach => ReturnsPositionReached]_vars

\* the same for the snapshots whose shooter is inside the play area
C21_StopsInReachFromInside ==
    /\ StopsAtFirstStepInReach
    /\ []ReturnedFromOrigin
    /\ [][(ShooterInside(game_state) /\ StepIntoReach) => ReturnsPositionReached]_vars

\* the early exit of line 135 has just been taken, after more than one step
C21_EarlyExitReached ==
    /\ pc = "return"
    /\ CloseToTarget(x, y, Target)
    /\ Len(trajectory) > 2
    /\ trajectory[Len(trajectory)] = <<Trunc(x), Trunc(y)>>

\* the break of line 135 was taken: the simulation has ended on a position
\* within the target's radius in both axes that was appended to the trajectory
EarlyExit ==
    /\ pc = "return"
    /\ y < YMax(game_state.game_area) * SCALE
    /\ CloseToTarget(x, y, Target)

\* C22: whenever _simulate_trajectory ends by its early exit on target
\* proximity for a sweep angle, _calculate_bounced_shots collects that angle as
\* a viable bounced shot: the points of the trajectory satisfy
\* _trajectory_hits_target for the same target.
C22_EarlyExitIsCollected == EarlyExit => Collected

-----------------------------------------------------------------------------
(* Malformed snapshots (claim C15) *)

\* C15: for a malformed snapshot (a play area of zero or negative width or
\* height, or a shooter outside the play area) calculate_best_shot fails fast:
\* it evaluates no candidate, simulates no trajectory and never returns an
\* (angle, target) pair.
C15_MalformedSnapshotFailsFast ==
    ~ShooterInside(game_state) =>
        /\ scored = <<>>
        /\ trajectory = <<>>
        /\ best_shot = None

-----------------------------------------------------------------------------
(* Repeated calls (claim C16) *)

\* C16: calculate_best_shot has no side effects: during and after a call the
\* snapshot (the bubble list, its order and every field of every bubble, the
\* shooter position and the play area) is what it was when the call was made,
\* and a call returns what every earlier call on the same snapshot returned,
\* whatever calls on other snapshots came in between.
C16_NoSideEffects ==
    /\ game_state = arg
    /\ pc = "done" =>
           \A k \in 1..Len(calls) :
               calls[k].snapshot = arg => calls[k].result = best_shot

\* a snapshot whose bubbles the sort reorders, called on, then another
\* snapshot, then the first again, with a shot returned
C16_Witness ==
    /\ pc = "done"
    /\ Len(calls) = 2
    /\ calls[1].snapshot = game_state
    /\ calls[2].snapshot # game_state
    /\ sorted_bubbles = <<2, 1>>
    /\ best_shot # None
    /\ calls[1].result = best_shot

-----------------------------------------------------------------------------
(* _evaluate_shot (claims C17 and C18) *)

\* C17: _calculate_chain_potential of a target equals the number of other
\* entries of the bubble list (every list position except the target's own,
\* value-equal duplicates of the target included) whose center-to-center
\* distance to the target is strictly below 1.5 times the sum of the radii.
C17_ChainPotentialCountsNeighbours ==
    pc = "direct" =>
        CalculateChainPotential(Target, Bubbles) =
            Cardinality({k \in (1..Len(Bubbles)) \ {sorted_bubbles[bi]} :
                Near(DistSq(Bubbles[k].x, Bubbles[k].y, Target.x, Target.y),
                     Target.radius + Bubbles[k].radius)})

\* C18: on a board whose bubbles all have y >= 0 the height_factor of a target
\* lies in [0, 1], is 0 for the lowest bubble (the largest y of the board) and
\* is greater for every bubble that lies higher (smaller y) than the target.
C18_HeightFactorInUnitRange ==
    (pc = "direct" /\ \A k \in 1..Len(Bubbles) : Bubbles[k].y >= 0) =>
        LET height_factor == HeightFactor(Target, Bubbles)
        IN  /\ height_factor.den > 0
            /\ 0 <= height_factor.num
            /\ height_factor.num <= height_factor.den
            /\ Target.y = MaxY(Bubbles, Target) => height_factor.num = 0
            /\ \A k \in 1..Len(Bubbles) :
                   Bubbles[k].y < Target.y =>
                       Greater(HeightFactor(Bubbles[k], Bubbles), height_factor)

\* the target is the lowest bubble of a board with a higher bubble
C18_Witness ==
    /\ pc = "direct"
    /\ Target.y = MaxY(Bubbles, Target)
    /\ HeightFactor(Target, Bubbles) = Frac(0, Target.y)
    /\ \E k \in 1..Len(Bubbles) :
           /\ Bubbles[k].y < Target.y
           /\ Greater(HeightFactor(Bubbles[k], Bubbles), Frac(0, 1))
           /\ Greater(Frac(1, 1), HeightFactor(Bubbles[k], Bubbles))

-----------------------------------------------------------------------------
(* Direct before bounced (claim C23) *)

\* the direct shot of the bubble best_shot refers to
DirectShotOfBest == CalculateDirectShot(game_state.shooter_position, Bubbles[best_shot[2]])

\* C23: whenever calculate_best_shot returns a target that lies strictly above
\* the shooter, the returned angle is that target's direct-shot angle; a
\* bounced sweep angle becomes the best shot only for a target that has no
\* direct solution.
C23_DirectAngleForTargetAbove ==
    /\ []((pc = "done" /\ best_shot # None /\ Bubbles[best_shot[2]].y < ShooterY) =>
              (DirectShotOfBest # None /\ best_shot[1] = DirectShotOfBest[1]))
    /\ [][(pc = "bounced" /\ best_shot' # best_shot) =>
              CalculateDirectShot(game_state.shooter_position, Target) = None]_vars

\* the target returned lies above the shooter and also had bounced shots that
\* were scored, at angles other than its direct angle
C23_Witness ==
    /\ pc = "done"
    /\ best_shot # None
    /\ Bubbles[best_shot[2]].y < ShooterY
    /\ best_shot[1] = DirectShotOfBest[1]
    /\ \E k \in 1..Len(scored) :
           /\ scored[k].target = best_shot[2]
           /\ ~scored[k].direct
           /\ scored[k].angle # best_shot[1]

\* a bounced sweep angle is returned, for a target level with the shooter
C23_BouncedWitness ==
    /\ pc = "done"
    /\ best_shot # None
    /\ DirectShotOfBest = None
    /\ best_shot[1] \in SweepAngles

-----------------------------------------------------------------------------
(* play_game_loop (claims C19 and C20) *)

\* the positions in round_log of the entries equal to e
Logged(e) == {k \in 1..Len(round_log) : round_log[k] = e}

\* C19: a round in which the planner returns None performs no aim and no
\* click, it only waits; the mouse is moved and clicked in a round only after
\* calculate_best_shot returned a shot in that same round, on the screenshot
\* taken in that round.
C19_NoAimWithoutShot ==
    /\ Logged("none") # {} => round_log = <<"screenshot", "none", "sleep">>
    /\ Logged("none") # {} => loop_pc \in {"while", "stopped"}
    /\ \A k \in Logged("move") \cup Logged("click") :
           \E s \in Logged("shot") : s < k /\ round_log[1] = "screenshot"

\* a round without a shot right after a round that clicked
C19_Witness ==
    /\ click_time # None
    /\ round_count > 1
    /\ round_log = <<"screenshot", "none", "sleep">>
    /\ loop_best_shot = None
    /\ loop_pc = "while"

\* C20: any two consecutive shots are at least shot_cooldown apart:
\* aim_and_shoot is entered only when at least shot_cooldown has elapsed since
\* last_shot_time, last_shot_time is the time of the latest click, and a click
\* comes at least shot_cooldown after the click before it.
C20_ShotsSeparatedByCooldown ==
    /\ [](loop_pc \in {"aim", "click"} => now - last_shot_time >= shot_cooldown)
    /\ [](click_time # None => last_shot_time = click_time[1])
    /\ [][(click_time # None /\ click_time' # click_time) =>
              click_time'[1] - click_time[1] >= shot_cooldown]_vars

\* aim_and_shoot has been entered for a shot that is not the first
C20_Witness ==
    /\ loop_pc = "click"
    /\ click_time # None
    /\ last_shot_time = click_time[1]
    /\ now - last_shot_time >= shot_cooldown
    /\ Logged("move") # {}

-----------------------------------------------------------------------------
(* The bounds of play_game_loop (claims C24 and C25) *)

\* an iteration of the while loop is entered (lines 106-108)
RoundEntered == loop_pc = "while" /\ loop_pc' = "screenshot"

\* the loop has been left: by the while test (line 106) or by a break
Stopped == loop_pc = "stopped"

\* C24: play_game_loop always terminates after at most max_rounds rounds, for
\* every sequence of per-round outcomes (detection failure, no bubbles, no
\* shot, shot, exception raised inside the round): round_count increases by
\* exactly 1 in every iteration, exception rounds included, changes nowhere
\* else, and never exceeds max_rounds.
C24_LoopTerminatesWithinMaxRounds ==
    /\ <>Stopped
    /\ [](round_count <= max_rounds)
    /\ [][RoundEntered => round_count' = round_count + 1]_vars
    /\ [][round_count' # round_count => RoundEntered]_vars
    /\ [][loop_pc' = "while" => round_count' = round_count]_vars

\* the loop has ended by its while test after max_rounds rounds, the last of
\* which raised an exception
C24_Witness ==
    /\ Stopped
    /\ max_rounds >= 3
    /\ round_count = max_rounds
    /\ Logged("click") = {}
    /\ round_log = <<"screenshot", "shot", "move", "sleep">>

\* the round that ends is a detection-failure round (lines 115-122)
DetectionFailureRound ==
    loop_pc = "screenshot" /\ round_log' = <<"screenshot", "sleep">>

\* the round that ends is a no-shot round (lines 141-148)
NoShotRound ==
    loop_pc = "plan" /\ round_log' = <<"screenshot", "none", "sleep">>

\* line 150 is run: calculate_best_shot has returned a shot
ShotFound ==
    loop_pc = "plan" /\ loop_best_shot' # None /\ round_log' = <<"screenshot", "shot">>

\* the counter goes up by one in a detection-failure round and in a no-shot
\* round, the loop stops there exactly when the counter is above the limit of
\* that kind of round, and the counter never exceeds 11
CounterCountsAndStops ==
    /\ [](consecutive_no_shots \in 0..(DetectionFailureLimit + 1))
    /\ [][DetectionFailureRound =>
              (/\ consecutive_no_shots' = consecutive_no_shots + 1
               /\ loop_pc' = "stopped" <=> consecutive_no_shots' > DetectionFailureLimit)]_vars
    /\ [][NoShotRound =>
              (/\ consecutive_no_shots' = consecutive_no_shots + 1
               /\ loop_pc' = "stopped" <=> consecutive_no_shots' > NoShotLimit)]_vars
    /\ [][consecutive_no_shots' # consecutive_no_shots =>
              (DetectionFailureRound \/ NoShotRound \/ ShotFound)]_vars

\* once the loop has stopped nothing is clicked and nothing is counted
NoShotAfterStop ==
    /\ [](Stopped => loop_pc \notin {"cooldown", "aim", "click"})
    /\ [][Stopped => (loop_pc' = "stopped" /\ UNCHANGED <<clickVars, consecutive_no_shots>>)]_vars

\* a round that has run line 150 has ended: it has clicked
ResetRoundHasShot ==
    (loop_pc \in {"while", "stopped"} /\ Logged("shot") # {}) => Logged("click") # {}

\* C25 as stated: consecutive_no_shots is reset to 0 only by a round that
\* produces a shot, is incremented by exactly 1 in each detection-failure
\* round and each no-shot round, and never exceeds 11; the loop stops in a
\* no-shot round once the counter is above 5 and in a detection-failure round
\* once it is above 10, and a shot is never fired after the loop has stopped.
C25_CounterResetOnlyByShot ==
    /\ CounterCountsAndStops
    /\ NoShotAfterStop
    /\ [][ShotFound => consecutive_no_shots' = 0]_vars
    /\ []ResetRoundHasShot

\* C25 amended: consecutive_no_shots is reset to 0 only in a round in which
\* calculate_best_shot has returned a shot, before the shot is fired (a round
\* whose aim_and_shoot then raises has reset it too); it is incremented by
\* exactly 1 in each detection-failure round and each no-shot round and never
\* exceeds 11; the loop stops in a no-shot round once the counter is above 5
\* and in a detection-failure round once it is above 10, and a shot is never
\* fired after the loop has stopped.
C25_CounterResetWhenShotFound ==
    /\ CounterCountsAndStops
    /\ NoShotAfterStop
    /\ [][ShotFound => consecutive_no_shots' = 0]_vars
    /\ [][(consecutive_no_shots' = 0 /\ consecutive_no_shots # 0) => ShotFound]_vars

\* ten failed detections and then a round without a shot: the loop stops in a
\* no-shot round with the counter at 11
C25_Witness ==
    /\ Stopped
    /\ consecutive_no_shots = DetectionFailureLimit + 1
    /\ round_log = <<"screenshot", "none", "sleep">>

\* the loop stops on the sixth round without a shot in a row, after a shot
C25_NoShotLimitWitness ==
    /\ Stopped
    /\ click_time # None
    /\ consecutive_no_shots = NoShotLimit + 1
    /\ round_log = <<"screenshot", "none", "sleep">>

\* the counter was reset by a round that found a shot and raised before the click
C25_ResetWithoutShotReached ==
    /\ loop_pc = "while"
    /\ round_count > 1
    /\ consecutive_no_shots = 0
    /\ click_time = None
    /\ round_log = <<"screenshot", "shot", "sleep">>

=============================================================================
